---- MODULE Spec2Model ----
(***************************************************************************)
(* Model of gif_to_spritesheet.py: the spritesheet builder                 *)
(* (convert_gif_to_spritesheet), the batch driver (process_directory) and  *)
(* the command-line entry point.                                           *)
(*                                                                         *)
(* A file name is a sequence of one-character strings.  An image is a      *)
(* record [w, h, px] whose px maps <<x, y>> to a pixel <<colour, alpha>>.  *)
(* A GIF source is a record [n, w, h, pat]: n frames of w x h palette      *)
(* indices, the index at (x, y) of frame i being SrcIndex.                 *)
(***************************************************************************)
EXTENDS Integers, Sequences, FiniteSets, TLC

\* ------------------------------------------------------------- bounds
MaxFrames == 5

MaxW == 2

MaxH == 2

MaxFiles == 3

MaxBatchFrames == 2

\* ------------------------------------------------------ file names
GifLower == <<".", "g", "i", "f">>

GifUpper == <<".", "G", "I", "F">>

TxtLower == <<".", "t", "x", "t">>

\* the directory entries the batch driver may meet
Names ==
  { <<"a">> \o GifLower, <<"a">> \o GifUpper, <<"b">> \o GifLower,
    <<"a">> \o TxtLower }

\* str.lower() on one character
LowerChar(c) ==
  CASE c = "G" -> "g"
    [] c = "I" -> "i"
    [] c = "F" -> "f"
    [] OTHER -> c

\* filename.lower()
Lower(s) == [k \in 1..Len(s) |-> LowerChar(s[k])]

\* s.endswith(suffix)
EndsWith(s, suffix) ==
  /\ Len(s) >= Len(suffix)
  /\ SubSeq(s, Len(s) - Len(suffix) + 1, Len(s)) = suffix

\* filename.lower().endswith('.gif')
IsGif(filename) == EndsWith(Lower(filename), GifLower)

\* position of the last "." of s that is not a leading dot, 0 if none
LastDot(s) ==
  LET dots == {k \in 2..Len(s) : s[k] = "."}
  IN  IF dots = {} THEN 0 ELSE CHOOSE k \in dots : \A j \in dots : j <= k

\* os.path.splitext(base_filename)[0]
SplitExtStem(s) == IF LastDot(s) = 0 THEN s ELSE SubSeq(s, 1, LastDot(s) - 1)

\* f"{filename_without_ext}_spritesheet.png" (the directory part is fixed in a run)
OutputName(filename) == SplitExtStem(filename) \o <<"_spritesheet.png">>

OutPaths == {OutputName(f) : f \in Names}

\* ------------------------------------------------------ grid layout
RECURSIVE FloorSqrtFrom(_, _)
FloorSqrtFrom(n, r) == IF (r + 1) * (r + 1) > n THEN r ELSE FloorSqrtFrom(n, r + 1)

\* floor(sqrt(n))
FloorSqrt(n) == FloorSqrtFrom(n, 0)

CeilSqrt_floor(n) == FloorSqrt(n)

\* math.ceil(math.sqrt(frames)): sqrt(n) is whole exactly when n is a square
CeilSqrt(n) ==
  LET r == FloorSqrt(n) IN IF r * r = n THEN r ELSE r + 1

RowsFor_zeroGuard(n, c) ==
  IF c = 0 THEN [ok |-> TRUE, val |-> 0]
  ELSE [ok |-> TRUE, val |-> IF n % c = 0 THEN n \div c ELSE (n \div c) + 1]

\* math.ceil(frames / cols); the true division raises ZeroDivisionError for cols = 0
RowsFor(n, c) ==
  IF c = 0 THEN [ok |-> FALSE, val |-> 0 - 1]
  ELSE [ok |-> TRUE, val |-> IF n % c = 0 THEN n \div c ELSE (n \div c) + 1]

\* ---------------------------------------------------------- images
NoImage == [w |-> 0, h |-> 0, px |-> << >>]

Coords(w, h) == (0..(w - 1)) \X (0..(h - 1))

NewImage_opaque(w, h) == [w |-> w, h |-> h, px |-> [p \in Coords(w, h) |-> <<0, 255>>]]

\* Image.new('RGBA', (w, h), (0, 0, 0, 0))
NewImage(w, h) == [w |-> w, h |-> h, px |-> [p \in Coords(w, h) |-> <<0, 0>>]]

\* palette index stored at (x, y) of frame i of the source
SrcIndex(src, i, x, y) == (src.pat + i + x + 2 * y) % 3

\* palette entry to RGBA: index 0 is the transparency key
ToRGBA(idx) == <<idx + 1, IF idx = 0 THEN 0 ELSE 255>>

\* gif.convert('RGBA') with the cursor on frame i
ConvertRGBA(src, i) ==
  [w |-> src.w, h |-> src.h,
   px |-> [p \in Coords(src.w, src.h) |-> ToRGBA(SrcIndex(src, i, p[1], p[2]))]]

\* Image.paste(im, (x, y)): overwrite the box, clipped to the canvas
PasteImage(canvas, im, x, y) ==
  [canvas EXCEPT !.px =
     [p \in DOMAIN canvas.px |->
        IF /\ x <= p[1] /\ p[1] < x + im.w
           /\ y <= p[2] /\ p[2] < y + im.h
        THEN im.px[<<p[1] - x, p[2] - y>>]
        ELSE canvas.px[p]]]

PasteX_usesDiv(frame, cols, width) == (frame \div cols) * width

\* x = (frame % cols) * width
PasteX(frame, cols, width) == (frame % cols) * width

\* y = (frame // cols) * height
PasteY(frame, cols, height) == (frame \div cols) * height

\* gif.seek(k) succeeds for k < n and raises EOFError otherwise
SeekOk(src, k) == k < src.n

LoopDone_offByOne(frame, frames) == frame > frames

LoopDone_early(frame, frames) == frame >= frames - 1

\* for frame in range(frames): the loop is exhausted once frame reaches frames
LoopDone(frame, frames) == frame >= frames

\* ------------------------------------------------------ file system
Absent == [kind |-> "absent"]

OldFile == [kind |-> "old"]

Partial == [kind |-> "partial"]

\* what spritesheet.save(output_path, 'PNG') leaves at the path
Png(img) == [kind |-> "png", img |-> img]

\* ---------------------------------------------------------- sources
NoSource == [n |-> 0, w |-> 0, h |-> 0, pat |-> 0]

\* what Image.open may return: n frames (none for an empty source) of w x h
Sources == [n : 0..MaxFrames, w : 1..MaxW, h : 1..MaxH, pat : 0..1]

\* the sources of a batch run: fewer frames, one row of pixels, one pattern
BatchSources == {s \in Sources : s.n <= MaxBatchFrames /\ s.h = 1 /\ s.pat = 1}

\* ------------------------------------------------------------ state
VARIABLES
  caller,       \* "batch": run from the command line; "direct": the builder called alone
  outDirArg,    \* the output_dir argument: "None", "empty" ('') or "given"
  outDirState,  \* the given output directory: "exists", "creatable", "uncreatable"
  fs,           \* contents of the output paths of the resolved output directory
  saved,        \* output paths whose save() has completed in this run
  dirExists,    \* os.path.exists(directory)
  listing,      \* os.listdir(directory)
  todo,         \* entries the for loop has not reached yet
  pcMain,       \* position of the command-line run
  processed,    \* the tally of process_directory
  attempts,     \* calls of the builder, per entry
  diags,        \* "Error processing" lines, per entry
  succeeded,    \* entries for which the builder returned
  summary,      \* the number of the "Processed n GIF files" line, -1 before it
  notFound,     \* the "Directory not found" line has been printed
  exitCode,     \* exit status of the process, -1 while it runs
  uncaught,     \* the exception that left process_directory, "none" if none
  bpc,          \* position of the builder
  berr,         \* the exception the builder raised, "none" if none
  gifPath,      \* gif_path (its base name)
  src,          \* the opened source
  width,
  height,
  frames,
  cols,
  rows,
  canvas,       \* spritesheet
  frame,        \* loop variable of the compositing loop
  seekLog,      \* every gif.seek call: [pass, idx, ok]
  fsAtCall,     \* fs when the builder was entered
  saves         \* spritesheet.save calls that wrote the file, in this call

envVars == <<caller, outDirArg, outDirState, fs, saved>>

batchVars ==
  <<dirExists, listing, todo, pcMain, processed, attempts, diags, succeeded,
    summary, notFound, exitCode, uncaught>>

localVars ==
  <<berr, gifPath, src, width, height, frames, cols, rows, canvas, frame,
    seekLog, fsAtCall, saves>>

vars == <<envVars, batchVars, bpc, localVars>>

\* the sources Image.open may find behind a name
OpenSources == IF caller = "batch" THEN BatchSources ELSE Sources

\* ------------------------------------------------- the builder's steps
\* no builder frame is active
BuilderIdle ==
  /\ bpc = "idle"
  /\ berr = "none"
  /\ gifPath = << >>
  /\ src = NoSource
  /\ width = 0 /\ height = 0
  /\ frames = 0
  /\ cols = 0 - 1 /\ rows = 0 - 1
  /\ canvas = NoImage
  /\ frame = 0
  /\ seekLog = << >>
  /\ fsAtCall = fs
  /\ saves = 0

\* entry of convert_gif_to_spritesheet(gif_path, output_dir)
Enter(f) ==
  /\ bpc' = "open"
  /\ berr' = "none"
  /\ gifPath' = f
  /\ src' = NoSource
  /\ width' = 0 /\ height' = 0
  /\ frames' = 0
  /\ cols' = 0 - 1 /\ rows' = 0 - 1
  /\ canvas' = NoImage
  /\ frame' = 0
  /\ seekLog' = << >>
  /\ fsAtCall' = fs
  /\ saves' = 0

\* the builder's frame is discarded when control is back in the caller
Leave ==
  /\ bpc' = "idle"
  /\ berr' = "none"
  /\ gifPath' = << >>
  /\ src' = NoSource
  /\ width' = 0 /\ height' = 0
  /\ frames' = 0
  /\ cols' = 0 - 1 /\ rows' = 0 - 1
  /\ canvas' = NoImage
  /\ frame' = 0
  /\ seekLog' = << >>
  /\ fsAtCall' = fs
  /\ saves' = 0

\* an exception leaves the builder
Raise(e) == bpc' = "raised" /\ berr' = e

\* gif = Image.open(gif_path)
Open ==
  /\ bpc = "open"
  /\ \/ /\ \E s \in OpenSources : src' = s
        /\ bpc' = "mkdir"
        /\ UNCHANGED berr
     \/ /\ Raise("UnidentifiedImageError")
        /\ UNCHANGED src
  /\ UNCHANGED <<envVars, batchVars, gifPath, width, height, frames, cols, rows,
                 canvas, frame, seekLog, fsAtCall, saves>>

\* output_dir resolution, os.makedirs, and width, height = gif.size
EnsureDir ==
  /\ bpc = "mkdir"
  /\ \/ /\ \/ outDirArg = "None"
           \/ outDirArg = "given" /\ outDirState \in {"exists", "creatable"}
        /\ outDirState' = IF outDirArg = "given" THEN "exists" ELSE outDirState
        /\ width' = src.w
        /\ height' = src.h
        /\ bpc' = "count"
        /\ UNCHANGED berr
     \/ /\ \/ outDirArg = "empty"
           \/ outDirArg = "given" /\ outDirState = "uncreatable"
        /\ Raise("OSError:makedirs")
        /\ UNCHANGED <<outDirState, width, height>>
  /\ UNCHANGED <<caller, outDirArg, fs, saved, batchVars, gifPath, src, frames,
                 cols, rows, canvas, frame, seekLog, fsAtCall, saves>>

\* one turn of the counting loop: gif.seek(frames); frames += 1, or EOFError
CountSeek ==
  /\ bpc = "count"
  /\ seekLog' = Append(seekLog, [pass |-> "count", idx |-> frames, ok |-> SeekOk(src, frames)])
  /\ IF SeekOk(src, frames)
       THEN frames' = frames + 1 /\ bpc' = "count"
       ELSE frames' = frames /\ bpc' = "layout"
  /\ UNCHANGED <<envVars, batchVars, berr, gifPath, src, width, height, cols, rows,
                 canvas, frame, fsAtCall, saves>>

\* cols = ceil(sqrt(frames)); rows = ceil(frames / cols)
Layout ==
  /\ bpc = "layout"
  /\ cols' = CeilSqrt(frames)
  /\ IF RowsFor(frames, cols').ok
       THEN rows' = RowsFor(frames, cols').val /\ bpc' = "alloc" /\ UNCHANGED berr
       ELSE Raise("ZeroDivisionError") /\ UNCHANGED rows
  /\ UNCHANGED <<envVars, batchVars, gifPath, src, width, height, frames, canvas,
                 frame, seekLog, fsAtCall, saves>>

\* spritesheet = Image.new('RGBA', (width * cols, height * rows), (0, 0, 0, 0))
Allocate ==
  /\ bpc = "alloc"
  /\ \/ /\ canvas' = NewImage(width * cols, height * rows)
        /\ bpc' = "paste"
        /\ UNCHANGED berr
     \/ /\ Raise("MemoryError")
        /\ UNCHANGED canvas
  /\ UNCHANGED <<envVars, batchVars, gifPath, src, width, height, frames, cols, rows,
                 frame, seekLog, fsAtCall, saves>>

\* one turn of the compositing loop: seek, convert, paste
PasteFrame ==
  /\ bpc = "paste"
  /\ ~LoopDone(frame, frames)
  /\ seekLog' = Append(seekLog, [pass |-> "paste", idx |-> frame, ok |-> SeekOk(src, frame)])
  /\ \/ /\ SeekOk(src, frame)
        /\ canvas' = PasteImage(canvas, ConvertRGBA(src, frame),
                                PasteX(frame, cols, width), PasteY(frame, cols, height))
        /\ frame' = frame + 1
        /\ UNCHANGED <<bpc, berr>>
     \/ /\ ~SeekOk(src, frame)
        /\ Raise("EOFError")
        /\ UNCHANGED <<canvas, frame>>
     \/ /\ SeekOk(src, frame)
        /\ Raise("OSError:decode")
        /\ UNCHANGED <<canvas, frame>>
  /\ UNCHANGED <<envVars, batchVars, gifPath, src, width, height, frames, cols, rows,
                 fsAtCall, saves>>

\* spritesheet.save(output_path, 'PNG'), the message and the return
Save ==
  /\ bpc = "paste"
  /\ LoopDone(frame, frames)
  /\ \/ /\ fs' = [fs EXCEPT ![OutputName(gifPath)] = Png(canvas)]
        /\ saved' = saved \cup {OutputName(gifPath)}
        /\ saves' = saves + 1
        /\ bpc' = "returned"
        /\ UNCHANGED berr
     \/ /\ fs' \in {fs, [fs EXCEPT ![OutputName(gifPath)] = Partial]}
        /\ Raise("OSError:save")
        /\ UNCHANGED <<saved, saves>>
  /\ UNCHANGED <<caller, outDirArg, outDirState, batchVars, gifPath, src, width,
                 height, frames, cols, rows, canvas, frame, seekLog, fsAtCall>>

\* ------------------------------------------- process_directory and main
\* if not os.path.exists(directory): print(...); return
CheckDirectory ==
  /\ pcMain = "check"
  /\ IF dirExists
       THEN pcMain' = "mkdir" /\ UNCHANGED notFound
       ELSE pcMain' = "returned" /\ notFound' = TRUE
  /\ UNCHANGED <<envVars, dirExists, listing, todo, processed, attempts, diags,
                 succeeded, summary, exitCode, uncaught, bpc, localVars>>

\* if output_dir and not os.path.exists(output_dir): os.makedirs(output_dir)
EnsureOutputDir ==
  /\ pcMain = "mkdir"
  /\ \/ /\ outDirArg = "given" /\ outDirState = "uncreatable"
        /\ pcMain' = "raised"
        /\ uncaught' = "OSError:makedirs"
        /\ UNCHANGED outDirState
     \/ /\ ~(outDirArg = "given" /\ outDirState = "uncreatable")
        /\ outDirState' = IF outDirArg = "given" THEN "exists" ELSE outDirState
        /\ pcMain' = "loop"
        /\ UNCHANGED uncaught
  /\ UNCHANGED <<caller, outDirArg, fs, saved, dirExists, listing, todo, processed,
                 attempts, diags, succeeded, summary, notFound, exitCode, bpc,
                 localVars>>

\* for filename in os.listdir(directory): the suffix test and the call
NextFile ==
  /\ pcMain = "loop"
  /\ \E f \in todo :
       /\ todo' = todo \ {f}
       /\ IF IsGif(f)
            THEN /\ attempts' = [attempts EXCEPT ![f] = @ + 1]
                 /\ pcMain' = "call"
                 /\ Enter(f)
            ELSE UNCHANGED <<attempts, pcMain, bpc, localVars>>
  /\ UNCHANGED <<envVars, dirExists, listing, processed, diags, succeeded, summary,
                 notFound, exitCode, uncaught>>

\* the builder returned: processed += 1
HandleReturn ==
  /\ pcMain = "call"
  /\ bpc = "returned"
  /\ processed' = processed + 1
  /\ succeeded' = succeeded \cup {gifPath}
  /\ pcMain' = "loop"
  /\ Leave
  /\ UNCHANGED <<envVars, dirExists, listing, todo, attempts, diags, summary,
                 notFound, exitCode, uncaught>>

HandleError_counts ==
  /\ pcMain = "call"
  /\ bpc = "raised"
  /\ diags' = [diags EXCEPT ![gifPath] = @ + 1]
  /\ processed' = processed + 1
  /\ pcMain' = "loop"
  /\ Leave
  /\ UNCHANGED <<envVars, dirExists, listing, todo, attempts, succeeded,
                 summary, notFound, exitCode, uncaught>>

\* except Exception as e: print(f"Error processing {filename}: {e}")
HandleError ==
  /\ pcMain = "call"
  /\ bpc = "raised"
  /\ diags' = [diags EXCEPT ![gifPath] = @ + 1]
  /\ pcMain' = "loop"
  /\ Leave
  /\ UNCHANGED <<envVars, dirExists, listing, todo, processed, attempts, succeeded,
                 summary, notFound, exitCode, uncaught>>

\* print(f"Processed {processed} GIF files")
Summary ==
  /\ pcMain = "loop"
  /\ todo = {}
  /\ summary' = processed
  /\ pcMain' = "returned"
  /\ UNCHANGED <<envVars, dirExists, listing, todo, processed, attempts, diags,
                 succeeded, notFound, exitCode, uncaught, bpc, localVars>>

\* the interpreter ends: status 0 after a return, 1 after an uncaught exception
Exit ==
  /\ pcMain \in {"returned", "raised"}
  /\ exitCode' = IF pcMain = "raised" THEN 1 ELSE 0
  /\ pcMain' = "exited"
  /\ UNCHANGED <<envVars, dirExists, listing, todo, processed, attempts, diags,
                 succeeded, summary, notFound, uncaught, bpc, localVars>>

\* the builder called alone on one file
DirectCall ==
  /\ caller = "direct"
  /\ bpc = "idle"
  /\ \E f \in Names : Enter(f)
  /\ UNCHANGED <<envVars, batchVars>>

\* ------------------------------------------------------ specifications
InitEnv ==
  /\ outDirArg \in {"None", "empty", "given"}
  /\ outDirState \in {"exists", "creatable", "uncreatable"}
  /\ outDirArg # "given" => outDirState = "exists"
  /\ fs \in [OutPaths -> {Absent, OldFile}]
  /\ saved = {}

InitDriver ==
  /\ processed = 0
  /\ attempts = [f \in Names |-> 0]
  /\ diags = [f \in Names |-> 0]
  /\ succeeded = {}
  /\ summary = 0 - 1
  /\ notFound = FALSE
  /\ exitCode = 0 - 1
  /\ uncaught = "none"

\* python gif_to_spritesheet.py input_dir [-o output_dir]
Init ==
  /\ caller = "batch"
  /\ InitEnv
  /\ dirExists \in BOOLEAN
  /\ listing \in {S \in SUBSET Names : Cardinality(S) <= MaxFiles}
  /\ ~dirExists => listing = {}
  /\ todo = listing
  /\ pcMain = "check"
  /\ InitDriver
  /\ BuilderIdle

Next ==
  \/ CheckDirectory
  \/ EnsureOutputDir
  \/ NextFile
  \/ Open
  \/ EnsureDir
  \/ CountSeek
  \/ Layout
  \/ Allocate
  \/ PasteFrame
  \/ Save
  \/ HandleReturn
  \/ HandleError
  \/ Summary
  \/ Exit

Spec == Init /\ [][Next]_vars

\* convert_gif_to_spritesheet(gif_path, output_dir) called directly
InitBuilder ==
  /\ caller = "direct"
  /\ InitEnv
  /\ dirExists = TRUE
  /\ listing = {}
  /\ todo = {}
  /\ pcMain = "direct"
  /\ InitDriver
  /\ BuilderIdle

NextBuilder ==
  \/ DirectCall
  \/ Open
  \/ EnsureDir
  \/ CountSeek
  \/ Layout
  \/ Allocate
  \/ PasteFrame
  \/ Save

SpecBuilder == InitBuilder /\ [][NextBuilder]_vars

\* ------------------------------------------------------------ claims
\* the layout step has assigned cols
LayoutRan == cols # 0 - 1

\* the canvas has been allocated
Allocated == canvas # NoImage

\* top-left corner of grid cell k, as the specification states it
CellX(k) == (k % cols) * src.w

CellY(k) == (k \div cols) * src.h

\* C1: for every frame count N >= 1 the layout step yields cols = the smallest c
\* with c*c >= N and rows = ceil(N / cols), so cols * rows >= N; the canvas is
\* allocated with size (width * cols, height * rows), and a single-frame source
\* gets a canvas of exactly the frame's size.
C1_Layout ==
  (LayoutRan /\ frames >= 1) =>
    /\ cols >= 1
    /\ cols * cols >= frames
    /\ (cols - 1) * (cols - 1) < frames
    /\ rows >= 1
    /\ rows * cols >= frames
    /\ (rows - 1) * cols < frames
    /\ Allocated =>
         /\ canvas.w = src.w * cols
         /\ canvas.h = src.h * rows
         /\ DOMAIN canvas.px = Coords(src.w * cols, src.h * rows)
         /\ frames = 1 => canvas.w = src.w /\ canvas.h = src.h

C1_Witness ==
  /\ bpc = "returned"
  /\ frames = 5 /\ cols = 3 /\ rows = 2
  /\ src.w = 2 /\ src.h = 1
  /\ canvas.w = 6 /\ canvas.h = 2

\* frame i sits unmodified in grid cell i of the image img
CellHoldsFrame(img, i) ==
  \A p \in Coords(src.w, src.h) :
    /\ <<CellX(i) + p[1], CellY(i) + p[2]>> \in DOMAIN img.px
    /\ img.px[<<CellX(i) + p[1], CellY(i) + p[2]>>] = ConvertRGBA(src, i).px[p]

\* C2: every frame pasted so far is found, pixel by pixel and alpha included, at
\* offset ((i mod cols) * w, (i div cols) * h), inside the canvas, and stays there
\* while later frames are pasted; when the builder returns, all N frames have been
\* pasted and the written file holds that canvas.
C2_RoundTrip ==
  (Allocated /\ src.n >= 1) =>
    /\ \A i \in 0..(frame - 1) : CellHoldsFrame(canvas, i)
    /\ bpc = "returned" =>
         /\ frame = src.n
         /\ fs[OutputName(gifPath)] = Png(canvas)

C2_Witness ==
  /\ bpc = "returned"
  /\ src.n = 5 /\ src.w = 1 /\ src.h = 2
  /\ frame = 5

\* C3: every pixel of every grid cell with index in [N, cols * rows) has alpha 0
\* from the allocation of the canvas to the written file.
C3_UnusedCellsTransparent ==
  Allocated =>
    \A k \in src.n..(cols * rows - 1) :
      \A p \in Coords(src.w, src.h) :
        /\ <<CellX(k) + p[1], CellY(k) + p[2]>> \in DOMAIN canvas.px
        /\ canvas.px[<<CellX(k) + p[1], CellY(k) + p[2]>>][2] = 0
        /\ bpc = "returned" =>
             fs[OutputName(gifPath)].img.px[<<CellX(k) + p[1], CellY(k) + p[2]>>][2] = 0

C3_Witness ==
  /\ bpc = "returned"
  /\ src.n = 3 /\ src.w = 2 /\ src.h = 2
  /\ cols * rows = 4

\* the entries of the listing whose last four characters are ".gif" in any case
GifEntries ==
  {f \in listing :
     /\ Len(f) >= 4
     /\ \A k \in 1..4 :
          f[Len(f) - 4 + k] \in {GifLower[k], GifUpper[k]}}

\* C4: a builder failure never aborts the batch: no exception leaves
\* process_directory once a file has been attempted, no entry is attempted twice,
\* the tally counts exactly the files the builder returned for, and when the
\* summary is printed every .gif entry (any case) has been attempted exactly once,
\* each failed one has exactly one diagnostic, and the summary shows the tally.
C4_BatchSurvivesFailures ==
  /\ pcMain = "raised" => \A f \in Names : attempts[f] = 0
  /\ processed = Cardinality(succeeded)
  /\ \A f \in Names : attempts[f] <= 1 /\ diags[f] <= attempts[f]
  /\ summary # 0 - 1 =>
       /\ \A f \in Names : attempts[f] = IF f \in GifEntries THEN 1 ELSE 0
       /\ \A f \in Names : diags[f] = IF f \in GifEntries \ succeeded THEN 1 ELSE 0
       /\ succeeded \subseteq GifEntries
       /\ summary = Cardinality(succeeded)

C4_Witness ==
  /\ summary = 1
  /\ Cardinality(listing) = 3
  /\ Cardinality(GifEntries) = 2
  /\ \E f \in GifEntries : diags[f] = 1 /\ f \notin succeeded

\* C5: the run exits non-zero exactly on a fatal top-level failure (the input
\* directory does not exist, or an exception leaves process_directory) and zero
\* in every other run.
C5_ExitStatus ==
  exitCode # 0 - 1 =>
    ((exitCode # 0) <=> (~dirExists \/ uncaught # "none"))

\* C6: when the summary is printed, the number of distinct output files written
\* equals the reported count of successfully processed files.
C6_OneFilePerSuccess ==
  summary # 0 - 1 => Cardinality(saved) = summary

\* C7: a failure to create the output directory never leaves process_directory:
\* the run on an existing directory always ends with the summary.
C7_MakedirsRecovered ==
  /\ uncaught = "none"
  /\ (pcMain = "exited" /\ dirExists) => summary # 0 - 1

\* C8 as stated: with 0 counted frames the layout step completes with cols = 0
\* and rows = 0.
C8_ZeroFramesLayout ==
  (LayoutRan /\ frames = 0) =>
    /\ cols = 0
    /\ rows = 0
    /\ berr = "none"

\* C8 amended: with 0 counted frames the layout step assigns cols = 0 and then
\* fails in the computation of rows with ZeroDivisionError: rows is never
\* assigned, no canvas is allocated and nothing is written.
C8_ZeroFramesRaises ==
  (LayoutRan /\ frames = 0) =>
    /\ cols = 0
    /\ rows = 0 - 1
    /\ bpc = "raised"
    /\ berr = "ZeroDivisionError"
    /\ ~Allocated
    /\ fs = fsAtCall

C8_Witness ==
  /\ src # NoSource
  /\ src.n = 0
  /\ cols = 0
  /\ berr = "ZeroDivisionError"

\* the seek calls of a complete run on n frames
ExpectedSeeks(n) ==
  [k \in 1..(2 * n + 1) |->
     IF k <= n + 1
       THEN [pass |-> "count", idx |-> k - 1, ok |-> (k - 1 < n)]
       ELSE [pass |-> "paste", idx |-> k - n - 2, ok |-> TRUE]]

IsPrefix(s, t) == Len(s) <= Len(t) /\ s = SubSeq(t, 1, Len(s))

\* C9: the seek calls made so far are a prefix of 0, 1, ..., N (only N failing)
\* followed by 0, 1, ..., N-1, the whole of it when the builder returns; frames is
\* the number of successful seeks of the counting pass, equal to N once that pass
\* has ended; no seek of the compositing pass is at an index >= frames.
C9_SeekOrder ==
  src # NoSource =>
    /\ IsPrefix(seekLog, ExpectedSeeks(src.n))
    /\ frames = Cardinality({k \in 1..Len(seekLog) :
                               seekLog[k].pass = "count" /\ seekLog[k].ok})
    /\ bpc \in {"layout", "alloc", "paste", "returned"} =>
         frames = src.n /\ Len(seekLog) >= src.n + 1
    /\ \A k \in 1..Len(seekLog) :
         seekLog[k].pass = "paste" => seekLog[k].idx < frames
    /\ bpc = "returned" => seekLog = ExpectedSeeks(src.n)

C9_Witness ==
  /\ bpc = "returned"
  /\ src.n = 4
  /\ Len(seekLog) = 9
  /\ seekLog[5].ok = FALSE

\* C10: while the builder has not reached its final write the output path holds
\* what it held at the call, also after an error left the builder; the file is
\* written at most once, and only after all N frames have been pasted.
C10_NoPartialOutput ==
  /\ (bpc \notin {"idle", "returned", "raised"}) => fs = fsAtCall /\ saves = 0
  /\ (bpc = "raised" /\ berr # "OSError:save") =>
       /\ berr # "none"
       /\ fs = fsAtCall
       /\ saves = 0
  /\ saves <= 1
  /\ saves = 1 =>
       /\ bpc = "returned"
       /\ frame = src.n
       /\ \A i \in 0..(src.n - 1) : CellHoldsFrame(canvas, i)
       /\ \A q \in OutPaths : q # OutputName(gifPath) => fs[q] = fsAtCall[q]

C10_Witness ==
  /\ bpc = "raised"
  /\ berr = "OSError:decode"
  /\ frame >= 1
  /\ fsAtCall[OutputName(gifPath)] = OldFile
  /\ fs[OutputName(gifPath)] = OldFile

====
